---- MODULE Spec2Model ----
(***************************************************************************)
(* Model of maigret.py: the driver loop of main(), the dispatch and        *)
(* collection loops of sherlock(), get_response() and the worker threads   *)
(* of the futures session.                                                 *)
(*                                                                         *)
(* Strings that the code inspects (identifiers, response bodies, error     *)
(* messages) are sequences of one-character strings, so that lower() and   *)
(* the `in` substring test are computed.  Other strings are TLA+ strings.  *)
(***************************************************************************)
EXTENDS Integers, Sequences, FiniteSets, TLC

VARIABLES
    args,             \* parsed command line: ids_search, tags, tor, unique_tor, proxy
    usernames,        \* main(): ordered dict identifier -> kind, as <<identifier, kind>> pairs
    already_checked,  \* main(): set of lower-cased identifiers
    pc,               \* position of the main thread
    username,         \* sherlock(): identifier of the running round
    id_type,          \* sherlock(): its kind
    site_data,        \* the catalog: ordered dict of site records (with request_future)
    futures,          \* every Future created so far, by creation order
    results_total,    \* sherlock(): per site, the results_site dict of this round
    idx,              \* position of the running for-loop over site_data.items()
    circuit,          \* number of reset_identity() calls made so far
    starts,           \* sink: the query_notify.start() calls of the run, in order
    updates,          \* sink: the query_notify.update() calls since the last start()
    finishes          \* sink: number of query_notify.finish() calls of the run

vars == <<args, usernames, already_checked, pc, username, id_type, site_data,
          futures, results_total, idx, circuit, starts, updates, finishes>>

-----------------------------------------------------------------------------
(* Bounds of the model *)

\* Largest number of identifiers given on the command line.
MaxInitial == 2

\* Longest response body drawn for the single-site catalogs.
MaxBody == 2

-----------------------------------------------------------------------------
(* Python values *)

None == "None"

\* An identifier, body or message spelled as a sequence of characters.
Str1(a) == <<a>>
Str2(a, b) == <<a, b>>

RECURSIVE SeqsUpTo(_, _)
SeqsUpTo(S, n) ==
    IF n = 0 THEN {<<>>}
    ELSE LET shorter == SeqsUpTo(S, n - 1)
         IN  shorter \cup {Append(s, c) : s \in {t \in shorter : Len(t) = n - 1}, c \in S}

\* str.lower() on one character and on a string.
LowerChar(c) ==
    CASE c = "A" -> "a"
      [] c = "B" -> "b"
      [] OTHER -> c

Lower(s) == [k \in DOMAIN s |-> LowerChar(s[k])]

\* `sub in text` for two strings.
Contains(sub, text) ==
    \E k \in 0..(Len(text) - Len(sub)) :
        \A m \in 1..Len(sub) : text[k + m] = sub[m]

\* Ordered dict as a sequence of <<key, value>> pairs with distinct keys.
DictKeys(d) == {d[k][1] : k \in DOMAIN d}

DictHas(d, key) == \E k \in DOMAIN d : d[k][1] = key

\* d.setdefault(key, value): an existing key keeps the value it has.
DictSetKeepValue(d, key, value) ==
    IF \E k \in DOMAIN d : d[k][1] = key THEN d ELSE Append(d, <<key, value>>)

\* An existing key is taken out and put back at the end.
DictSetMoveToEnd(d, key, value) ==
    Append(SelectSeq(d, LAMBDA e : e[1] # key), <<key, value>>)

\* d[key] = value: an existing key keeps its position and takes the value.
DictSet(d, key, value) ==
    IF DictHas(d, key)
    THEN [k \in DOMAIN d |-> IF d[k][1] = key THEN <<key, value>> ELSE d[k]]
    ELSE Append(d, <<key, value>>)

RECURSIVE DictUpdate(_, _)
\* for k, v in e.items(): d[k] = v
DictUpdate(d, e) ==
    IF e = <<>> THEN d
    ELSE DictUpdate(DictSet(d, e[1][1], e[1][2]), Tail(e))

-----------------------------------------------------------------------------
(* The data the run works on *)

\* Identifier kinds: the default kind and the special kinds of sherlock().
Kinds == {"username", "yandex_public_id", "wikimapia_uid", "gaia_id"}

\* Identifiers of the model: two of them differ only by case.
Identifiers == {Str1("a"), Str1("A"), Str1("b")}

NoErrorMsg == [type |-> "none", str |-> <<>>, list |-> <<>>]
ErrorMsgStr(s) == [type |-> "str", str |-> s, list |-> <<>>]
ErrorMsgList(l) == [type |-> "list", str |-> <<>>, list |-> l]

\* A site record (net_info) as loaded: no request_future key yet.
Site(name, type, tags, regexCheck, errorType, head, errorMsg, errors) ==
    [name |-> name, type |-> type, tags |-> tags, regexCheck |-> regexCheck,
     errorType |-> errorType, request_head_only |-> head,
     errorMsg |-> errorMsg, errors |-> errors, request_future |-> 0]

\* The catalog of the driver runs: two username sites read with GET, one of
\* them with a validity regex, an error message and a failure annotation, and
\* one site of another identifier kind.
MainCatalog ==
    << Site("Alpha", "username", {"social"}, "", "status_code", FALSE,
            NoErrorMsg, <<>>),
       Site("Beta", "username", {"forum"}, "^[a-z]+$", "message", TRUE,
            ErrorMsgStr(Str1("n")), << <<Str1("x"), "Country ban">> >>),
       Site("Gamma", "gaia_id", {"social"}, "", "response_url", TRUE,
            NoErrorMsg, <<>>) >>

\* Exceptions a future's result() can raise (requests.exceptions).
Exceptions == {"ProxyError", "ConnectionError", "ConnectTimeout",
               "ReadTimeout", "RequestException"}

Response(status, text, ids) ==
    [kind |-> "response", status_code |-> status, text |-> text, ids |-> ids,
     exception |-> None]

Failure(exc) ==
    [kind |-> "exception", status_code |-> 0, text |-> <<>>, ids |-> <<>>,
     exception |-> exc]

NoOutcome ==
    [kind |-> "pending", status_code |-> 0, text |-> <<>>, ids |-> <<>>,
     exception |-> None]

\* What extract() may return for a page, as <<key, value>> pairs.
NoIds == <<>>
IdsData(key, value) == << <<key, value>> >>

-----------------------------------------------------------------------------
(* sherlock(): the decisions of the dispatch loop *)

\* re.search(regex_check, username) is not None, for the patterns in use.
ReSearch(pattern, s) ==
    CASE pattern = "^[a-z]+$" -> Len(s) >= 1 /\ \A k \in DOMAIN s : s[k] \in {"a", "b"}
      [] OTHER -> TRUE

\* The kind test alone.
ApplicableKindOnly(net_info, kind, tags) == net_info.type = kind

\* The kind test and the tag test that let a site into the round.
Applicable(net_info, kind, tags) ==
    /\ net_info.type = kind
    /\ (tags # {} => (tags \cap net_info.tags) # {})

\* No identifier is refused, whatever the site's regexCheck.
RegexRejectsNever(net_info, name) == FALSE

\* regex_check and re.search(regex_check, username) is None
RegexRejects(net_info, name) ==
    net_info.regexCheck # "" /\ ~ReSearch(net_info.regexCheck, name)

RequestMethod(net_info) ==
    IF net_info.errorType = "status_code" /\ net_info.request_head_only = TRUE
    THEN "HEAD" ELSE "GET"

\* Redirects allowed whatever the strategy.
AllowRedirectsAlways(net_info) == TRUE

AllowRedirects(net_info) ==
    IF net_info.errorType = "response_url" THEN FALSE ELSE TRUE

\* max_workers of the futures session.
PoolLimit == 20

\* One worker per site, whatever their number.
MaxWorkersUncapped(sites) == Len(sites)

MaxWorkers(sites) == IF Len(sites) >= PoolLimit THEN PoolLimit ELSE Len(sites)

\* A catalog larger than the pool: PoolLimit + MaxBeyond sites of the kind
\* username, all checked by status code with a HEAD request.
MaxBeyond == 1

PoolNames ==
    <<"N01", "N02", "N03", "N04", "N05", "N06", "N07", "N08", "N09", "N10",
      "N11", "N12", "N13", "N14", "N15", "N16", "N17", "N18", "N19", "N20",
      "N21", "N22", "N23", "N24">>

PoolCatalog ==
    [k \in 1..(PoolLimit + MaxBeyond) |->
        Site(PoolNames[k], "username", {}, "", "status_code", TRUE, NoErrorMsg, <<>>)]

-----------------------------------------------------------------------------
(* get_response() and the classification of sherlock()'s second loop *)

ErrorContext(exc) ==
    CASE exc = "HTTPError" -> "HTTP Error"
      [] exc = "ProxyError" -> "Proxy Error"
      [] exc \in {"ConnectionError", "ConnectTimeout"} -> "Error Connecting"
      [] exc = "ReadTimeout" -> "Timeout Error"
      [] OTHER -> "Unknown Error"

\* get_response(): the response (or no response) and the error context.
GetResponse(outcome) ==
    IF outcome.kind = "response"
    THEN [r |-> outcome, has_r |-> TRUE,
          error_context |-> IF outcome.status_code # 0 THEN None
                            ELSE "General Unknown Error"]
    ELSE [r |-> outcome, has_r |-> FALSE,
          error_context |-> ErrorContext(outcome.exception)]

RECURSIVE ScanErrorsNoBreak(_, _, _)
\* The scan without its break: the last text found wins.
ScanErrorsNoBreak(failure_errors, text, error_text) ==
    IF failure_errors = <<>> THEN error_text
    ELSE ScanErrorsNoBreak(Tail(failure_errors), text,
                           IF Contains(failure_errors[1][1], text)
                           THEN failure_errors[1][2] ELSE error_text)

RECURSIVE ScanErrors(_, _, _)
\* for text, comment in failure_errors.items(): the first text found in the
\* body replaces error_text by its comment.
ScanErrors(failure_errors, text, error_text) ==
    IF failure_errors = <<>> THEN error_text
    ELSE IF Contains(failure_errors[1][1], text) THEN failure_errors[1][2]
    ELSE ScanErrors(Tail(failure_errors), text, error_text)

\* bool(r): a Response is true unless its status is a 4xx or 5xx.
Truthy(got) ==
    got.has_r /\ ~(got.r.status_code >= 400 /\ got.r.status_code < 600)

\* 'username' in k, for the keys extract() uses in the model.
KeyNamesUsername(k) == k \in {"username", "vk_username"}

RECURSIVE NewUsernames(_, _)
\* The dict built from extracted_ids_data.items().
NewUsernames(items, acc) ==
    IF items = <<>> THEN acc
    ELSE LET k == items[1][1]
             v == items[1][2]
             a1 == IF KeyNamesUsername(k) THEN DictSet(acc, v, "username") ELSE acc
             a2 == IF k \in {"yandex_public_id", "wikimapia_uid", "gaia_id"}
                   THEN DictSet(a1, v, k) ELSE a1
         IN  NewUsernames(Tail(items), a2)

\* set(error) whatever the type: the characters of a single string.
ErrorsSetOfChars(errorMsg) ==
    IF errorMsg.type = "list" THEN {errorMsg.list[k] : k \in DOMAIN errorMsg.list}
    ELSE {Str1(errorMsg.str[k]) : k \in DOMAIN errorMsg.str}

\* set(error) if type(error) == list else set({error})
ErrorsSet(errorMsg) ==
    IF errorMsg.type = "list" THEN {errorMsg.list[k] : k \in DOMAIN errorMsg.list}
    ELSE {errorMsg.str}

\* The branch of the message strategy.
MessageStatus(net_info, r) ==
    LET error_found == \E err \in ErrorsSet(net_info.errorMsg) : Contains(err, r.text)
    IN  IF ~error_found THEN "CLAIMED" ELSE "AVAILABLE"

\* The branch of the status_code strategy.
StatusCodeStatus(r) ==
    IF ~(r.status_code >= 300) \/ r.status_code < 200 THEN "CLAIMED" ELSE "AVAILABLE"

\* The branch of the response_url strategy.
ResponseUrlStatus(r) ==
    IF 200 <= r.status_code /\ r.status_code < 300 THEN "CLAIMED" ELSE "AVAILABLE"

\* The if/elif chain that builds the QueryResult, or raises ValueError.
Classify(net_info, got, error_text) ==
    IF error_text # None THEN [raised |-> "", status |-> "UNKNOWN", context |-> error_text]
    ELSE IF net_info.errorType = "message"
    THEN [raised |-> "", status |-> MessageStatus(net_info, got.r), context |-> None]
    ELSE IF net_info.errorType = "status_code"
    THEN [raised |-> "", status |-> StatusCodeStatus(got.r), context |-> None]
    ELSE IF net_info.errorType = "response_url"
    THEN [raised |-> "", status |-> ResponseUrlStatus(got.r), context |-> None]
    ELSE [raised |-> "ValueError", status |-> "", context |-> None]

\* The failure scan reads r.text: with no response it raises AttributeError
\* as soon as the site declares one failure text.
ScanRaises(net_info, got) == net_info.errors # <<>> /\ ~got.has_r

\* One iteration of the second loop for a probed site, from the outcome of
\* its future: what is raised, the QueryResult and the ids_usernames entry.
Collected(net_info, outcome, ids_search) ==
    LET got == GetResponse(outcome)
    IN  IF ScanRaises(net_info, got)
        THEN [raised |-> "AttributeError", status |-> "", context |-> None,
              query_time |-> None, has_ids |-> FALSE, ids_usernames |-> <<>>]
        ELSE
        LET error_text == ScanErrors(net_info.errors, got.r.text, got.error_context)
            extracted == IF ids_search /\ Truthy(got) THEN got.r.ids ELSE <<>>
            c == Classify(net_info, got, error_text)
        IN  [raised |-> c.raised, status |-> c.status, context |-> c.context,
             query_time |-> IF got.has_r THEN "elapsed" ELSE None,
             has_ids |-> extracted # <<>>,
             ids_usernames |-> NewUsernames(extracted, <<>>)]

-----------------------------------------------------------------------------
(* The network: what each service can answer *)

\* Status codes and bodies the service of a single-site catalog answers with.
ProbeStatuses == {101, 200, 299, 300, 302, 404, 500}

ProbeBodies == SeqsUpTo({"n", "x"}, MaxBody)

ServiceOutcomes(name) ==
    CASE name = "Alpha" ->
           {Failure("ReadTimeout"),
            Response(200, <<>>, NoIds),
            Response(200, <<>>, IdsData("username", Str1("b"))),
            Response(200, <<>>, IdsData("gaia_id", Str1("b"))),
            Response(404, <<>>, IdsData("username", Str1("b")))}
      [] name = "Beta" ->
           {Failure("ConnectionError"),
            Response(200, <<>>, NoIds),
            Response(200, Str1("n"), IdsData("fullname", Str1("b"))),
            Response(200, Str1("x"), IdsData("username", Str1("A"))),
            Response(200, <<>>, IdsData("gaia_id", Str1("A"))),
            Response(200, <<>>, IdsData("username", Str1("b"))),
            Response(404, <<>>, IdsData("username", Str1("b")))}
      [] name = "Gamma" ->
           {Failure("ProxyError"),
            Response(200, <<>>, NoIds),
            Response(302, <<>>, NoIds)}
      [] name \in {PoolNames[k] : k \in DOMAIN PoolNames} ->
           {Response(200, <<>>, NoIds)}
      [] OTHER ->
           {Failure(e) : e \in Exceptions}
           \cup {Response(st, b, ids) :
                   st \in ProbeStatuses, b \in ProbeBodies,
                   ids \in {NoIds, IdsData("username", Str1("A"))}}

\* The outcomes of one request: a HEAD response has no body, and what
\* extract() would return is drawn only when extraction is enabled.
RequestOutcomes(name, method, ids_search) ==
    {IF o.kind = "response"
     THEN Response(o.status_code,
                   IF method = "HEAD" THEN <<>> ELSE o.text,
                   IF method = "HEAD" \/ ~ids_search THEN NoIds ELSE o.ids)
     ELSE o : o \in ServiceOutcomes(name)}

-----------------------------------------------------------------------------
(* State after argument parsing *)

NoResults == [present |-> FALSE, has_status |-> FALSE, status |-> "",
              context |-> None, query_time |-> None,
              has_ids |-> FALSE, ids_usernames |-> <<>>]

\* usernames = {u: 'username' for u in args.username}: distinct keys in the
\* order given.
InitialUsernames ==
    {[k \in DOMAIN q |-> <<q[k], "username">>] :
        q \in {t \in SeqsUpTo(Identifiers, MaxInitial) :
                 /\ Len(t) >= 1
                 /\ \A a, b \in DOMAIN t : a # b => t[a] # t[b]}}

InitCommon ==
    /\ already_checked = {}
    /\ pc = "check_args"
    /\ username = <<>>
    /\ id_type = ""
    /\ futures = <<>>
    /\ results_total = [k \in DOMAIN site_data |-> NoResults]
    /\ idx = 1
    /\ circuit = 0
    /\ starts = <<>>
    /\ updates = <<>>
    /\ finishes = 0

\* Single-site catalogs: one site named "Probe" in every configuration of
\* strategy, method, error messages, failure annotations and validity regex,
\* and one site of another identifier kind.
ProbeErrorMsgs ==
    {ErrorMsgStr(Str1("n")), ErrorMsgStr(Str2("n", "x")),
     ErrorMsgList(<<Str1("n"), Str1("x")>>), ErrorMsgList(<<Str2("n", "x")>>)}

ProbeErrors ==
    {<<>>,
     << <<Str1("x"), "Country ban">> >>,
     << <<Str2("x", "n"), "Captcha">>, <<Str1("x"), "Country ban">> >>}

ProbeDescriptors ==
    {Site("Probe", "username", {}, re, et, head, msg, errs) :
        re \in {"", "^[a-z]+$"},
        et \in {"status_code", "response_url", "rank"},
        head \in BOOLEAN, msg \in {NoErrorMsg}, errs \in ProbeErrors}
    \cup
    {Site("Probe", "username", {}, re, "message", TRUE, msg, errs) :
        re \in {"", "^[a-z]+$"}, msg \in ProbeErrorMsgs, errs \in ProbeErrors}
    \cup
    {Site("Probe", "gaia_id", {}, "", "status_code", TRUE, NoErrorMsg, <<>>)}

Init ==
    /\ args \in [ids_search : BOOLEAN, tags : {{}, {"social"}},
                 tor : {FALSE}, unique_tor : {FALSE}, proxy : {None}]
    /\ usernames \in InitialUsernames
    /\ site_data = MainCatalog
    /\ InitCommon

-----------------------------------------------------------------------------
(* main(): argument check and the while loop over usernames *)

\* Tor and a proxy together are refused before anything else runs.
CheckArgs ==
    /\ pc = "check_args"
    /\ pc' = IF args.tor /\ args.proxy # None THEN "raised" ELSE "main"
    /\ UNCHANGED <<args, usernames, already_checked, username, id_type, site_data,
                   futures, results_total, idx, circuit, starts, updates, finishes>>

\* username.lower() in already_checked, and the same test on the exact string.
AlreadyCheckedExact(name) == name \in already_checked

AlreadyChecked(name) == Lower(name) \in already_checked

\* while usernames: is false.
LoopExit ==
    /\ pc = "main"
    /\ usernames = <<>>
    /\ pc' = "done"
    /\ UNCHANGED <<args, usernames, already_checked, username, id_type, site_data,
                   futures, results_total, idx, circuit, starts, updates, finishes>>

\* The first item is popped and found in already_checked: continue.
PopSkip ==
    /\ pc = "main"
    /\ usernames # <<>>
    /\ AlreadyChecked(usernames[1][1])
    /\ usernames' = Tail(usernames)
    /\ UNCHANGED <<args, already_checked, pc, username, id_type, site_data,
                   futures, results_total, idx, circuit, starts, updates, finishes>>

\* The first item is popped and marked, and sherlock() is entered: the start
\* notification, a fresh session and an empty results_total.
PopRun ==
    /\ pc = "main"
    /\ usernames # <<>>
    /\ ~AlreadyChecked(usernames[1][1])
    /\ usernames' = Tail(usernames)
    /\ already_checked' = already_checked \cup {Lower(usernames[1][1])}
    /\ username' = usernames[1][1]
    /\ id_type' = usernames[1][2]
    /\ starts' = Append(starts, <<usernames[1][1], usernames[1][2]>>)
    /\ updates' = <<>>
    /\ results_total' = [k \in DOMAIN site_data |-> NoResults]
    /\ idx' = 1
    /\ pc' = "dispatch"
    /\ UNCHANGED <<args, site_data, futures, circuit, finishes>>

-----------------------------------------------------------------------------
(* sherlock(): first loop, one site per step *)

\* The for-loop moves to the next site, or ends and control goes to `next`.
Advance(next) ==
    IF idx < Len(site_data)
    THEN idx' = idx + 1 /\ pc' = pc
    ELSE idx' = 1 /\ pc' = next

QueryResult(name, site, status, context, query_time) ==
    [username |-> name, site |-> site, status |-> status, context |-> context,
     query_time |-> query_time]

\* The site is of another kind or has none of the wanted tags: continue.
DispatchSkip ==
    /\ pc = "dispatch"
    /\ ~Applicable(site_data[idx], id_type, args.tags)
    /\ Advance("collect")
    /\ UNCHANGED <<args, usernames, already_checked, username, id_type, site_data,
                   futures, results_total, circuit, starts, updates, finishes>>

\* The identifier fails the site's regexCheck: ILLEGAL is notified at once.
DispatchIllegal ==
    /\ pc = "dispatch"
    /\ Applicable(site_data[idx], id_type, args.tags)
    /\ RegexRejects(site_data[idx], username)
    /\ updates' = Append(updates,
                         QueryResult(username, site_data[idx].name, "ILLEGAL", None, None))
    /\ results_total' = [results_total EXCEPT ![idx] =
                           [NoResults EXCEPT !.present = TRUE, !.has_status = TRUE,
                                             !.status = "ILLEGAL"]]
    /\ Advance("collect")
    /\ UNCHANGED <<args, usernames, already_checked, username, id_type, site_data,
                   futures, circuit, starts, finishes>>

\* The request is handed to the session, its future is stored in the site
\* record, and the Tor identity is reset when unique_tor is set.
NewFuture(net_info) ==
    [round |-> Len(starts), site |-> idx,
     method |-> RequestMethod(net_info),
     allow_redirects |-> AllowRedirects(net_info),
     proxies |-> args.proxy,
     tor |-> (args.tor \/ args.unique_tor),
     circuit |-> circuit,
     state |-> "queued", outcome |-> NoOutcome]

\* The future and the method decided are both written into the site record.
StoreFutureAndMethod(sites, k, fut) ==
    [sites EXCEPT ![k].request_future = fut,
                  ![k].request_head_only = (RequestMethod(sites[k]) = "HEAD")]

\* net_info["request_future"] = future
StoreFuture(sites, k, fut) == [sites EXCEPT ![k].request_future = fut]

DispatchRequest ==
    /\ pc = "dispatch"
    /\ Applicable(site_data[idx], id_type, args.tags)
    /\ ~RegexRejects(site_data[idx], username)
    /\ futures' = Append(futures, NewFuture(site_data[idx]))
    /\ site_data' = StoreFuture(site_data, idx, Len(futures) + 1)
    /\ circuit' = IF args.unique_tor THEN circuit + 1 ELSE circuit
    /\ results_total' = [results_total EXCEPT ![idx] = [NoResults EXCEPT !.present = TRUE]]
    /\ Advance("collect")
    /\ UNCHANGED <<args, usernames, already_checked, username, id_type,
                   starts, updates, finishes>>

-----------------------------------------------------------------------------
(* The worker threads of the session *)

Running(round) ==
    {f \in DOMAIN futures : futures[f].round = round /\ futures[f].state = "running"}

\* The sites of the large catalog are served by one host that answers the
\* requests it holds in the order they were made; every other site answers
\* whenever it does.
AnswersInTurn(f) ==
    site_data[futures[f].site].name \in {PoolNames[k] : k \in DOMAIN PoolNames}
    => \A g \in 1..(f - 1) :
          futures[g].round = futures[f].round => futures[g].state = "done"

\* A free worker of the pool takes the request at the head of the work queue.
WorkerStart(f) ==
    /\ futures[f].state = "queued"
    /\ \A g \in 1..(f - 1) : futures[g].state # "queued"
    /\ Cardinality(Running(futures[f].round)) < MaxWorkers(site_data)
    /\ futures' = [futures EXCEPT ![f].state = "running"]
    /\ UNCHANGED <<args, usernames, already_checked, pc, username, id_type, site_data,
                   results_total, idx, circuit, starts, updates, finishes>>

\* The request ends: a response is delivered or an exception is stored.
WorkerDone(f) ==
    /\ futures[f].state = "running"
    /\ AnswersInTurn(f)
    /\ \E o \in RequestOutcomes(site_data[futures[f].site].name,
                                futures[f].method, args.ids_search) :
          futures' = [futures EXCEPT ![f].state = "done", ![f].outcome = o]
    /\ UNCHANGED <<args, usernames, already_checked, pc, username, id_type, site_data,
                   results_total, idx, circuit, starts, updates, finishes>>

-----------------------------------------------------------------------------
(* sherlock(): second loop, one site per step, and the finish notification *)

\* No results_site for the site, or its status is already set: continue.
CollectSkip ==
    /\ pc = "collect"
    /\ (~results_total[idx].present \/ results_total[idx].has_status)
    /\ Advance("finish")
    /\ UNCHANGED <<args, usernames, already_checked, username, id_type, site_data,
                   futures, results_total, circuit, starts, updates, finishes>>

\* What the iteration computes once the future stored in the site record
\* has a result.
CollectedNow ==
    Collected(site_data[idx], futures[site_data[idx].request_future].outcome,
              args.ids_search)

\* The iteration goes on without waiting for the future's result.
CollectReadyNoWait ==
    /\ pc = "collect"
    /\ results_total[idx].present
    /\ ~results_total[idx].has_status

\* The iteration takes whatever future the site record holds, whether or
\* not this round made a request for the site.
CollectReadyAnyFuture ==
    /\ pc = "collect"
    /\ site_data[idx].request_future # 0
    /\ futures[site_data[idx].request_future].state = "done"

CollectReady ==
    /\ pc = "collect"
    /\ results_total[idx].present
    /\ ~results_total[idx].has_status
    /\ futures[site_data[idx].request_future].state = "done"

\* The result is classified, notified and saved, and the identifiers found
\* go into usernames at once.
CollectResultQueueing ==
    /\ CollectReady
    /\ CollectedNow.raised = ""
    /\ LET c == CollectedNow
       IN  /\ updates' = Append(updates,
                                QueryResult(username, site_data[idx].name, c.status,
                                            c.context, c.query_time))
           /\ results_total' = [results_total EXCEPT ![idx] =
                                  [present |-> TRUE, has_status |-> TRUE,
                                   status |-> c.status, context |-> c.context,
                                   query_time |-> c.query_time,
                                   has_ids |-> c.has_ids,
                                   ids_usernames |-> c.ids_usernames]]
           /\ usernames' = DictUpdate(usernames, c.ids_usernames)
    /\ Advance("finish")
    /\ UNCHANGED <<args, already_checked, username, id_type, site_data,
                   futures, circuit, starts, finishes>>

\* The result is classified, notified and saved.
CollectResult ==
    /\ CollectReady
    /\ CollectedNow.raised = ""
    /\ LET c == CollectedNow
       IN  /\ updates' = Append(updates,
                                QueryResult(username, site_data[idx].name, c.status,
                                            c.context, c.query_time))
           /\ results_total' = [results_total EXCEPT ![idx] =
                                  [present |-> TRUE, has_status |-> TRUE,
                                   status |-> c.status, context |-> c.context,
                                   query_time |-> c.query_time,
                                   has_ids |-> c.has_ids,
                                   ids_usernames |-> c.ids_usernames]]
    /\ Advance("finish")
    /\ UNCHANGED <<args, usernames, already_checked, username, id_type, site_data,
                   futures, circuit, starts, finishes>>

\* The iteration raises: nothing catches it, the program ends.
CollectRaise ==
    /\ CollectReady
    /\ CollectedNow.raised # ""
    /\ pc' = "raised"
    /\ UNCHANGED <<args, usernames, already_checked, username, id_type, site_data,
                   futures, results_total, idx, circuit, starts, updates, finishes>>

\* The notification is made a second time on the way back to main().
FinishTwice ==
    /\ pc = "finish"
    /\ finishes' = finishes + 2
    /\ pc' = "report"
    /\ UNCHANGED <<args, usernames, already_checked, username, id_type, site_data,
                   futures, results_total, idx, circuit, starts, updates>>

\* The return to main() without the notification.
FinishSilent ==
    /\ pc = "finish"
    /\ pc' = "report"
    /\ UNCHANGED <<args, usernames, already_checked, username, id_type, site_data,
                   futures, results_total, idx, circuit, starts, updates, finishes>>

\* query_notify.finish() and the return to main().
Finish ==
    /\ pc = "finish"
    /\ finishes' = finishes + 1
    /\ pc' = "report"
    /\ UNCHANGED <<args, usernames, already_checked, username, id_type, site_data,
                   futures, results_total, idx, circuit, starts, updates>>

-----------------------------------------------------------------------------
(* main(): the loop over results that feeds usernames *)

RECURSIVE FoldIn(_, _, _)
\* for website_name in results: every ids_usernames item is assigned into
\* usernames.
FoldIn(queue, results, k) ==
    IF k > Len(results) THEN queue
    ELSE LET d == results[k]
             q == IF d.present /\ d.has_ids /\ d.ids_usernames # <<>>
                  THEN DictUpdate(queue, d.ids_usernames) ELSE queue
         IN  FoldIn(q, results, k + 1)

Report ==
    /\ pc = "report"
    /\ usernames' = FoldIn(usernames, results_total, 1)
    /\ pc' = "main"
    /\ UNCHANGED <<args, already_checked, username, id_type, site_data,
                   futures, results_total, idx, circuit, starts, updates, finishes>>

-----------------------------------------------------------------------------

Next ==
    \/ CheckArgs
    \/ LoopExit
    \/ PopSkip
    \/ PopRun
    \/ DispatchSkip
    \/ DispatchIllegal
    \/ DispatchRequest
    \/ \E f \in DOMAIN futures : WorkerStart(f)
    \/ \E f \in DOMAIN futures : WorkerDone(f)
    \/ CollectSkip
    \/ CollectResult
    \/ CollectRaise
    \/ Finish
    \/ Report

Spec == Init /\ [][Next]_vars

\* Every thread takes its next step when it has one: a request under way
\* ends, and main() and the workers are scheduled.
SpecFair == Spec /\ WF_vars(Next)

\* One identifier against every single-site catalog.
InitProbe ==
    /\ args \in [ids_search : BOOLEAN, tags : {{}},
                 tor : {FALSE}, unique_tor : {FALSE}, proxy : {None}]
    /\ usernames \in {<< <<u, "username">> >> : u \in {Str1("a"), Str1("A")}}
    /\ site_data \in {<<d>> : d \in ProbeDescriptors}
    /\ InitCommon

SpecProbe == InitProbe /\ [][Next]_vars

\* The configurations of Init, and one identifier against the catalog that
\* is larger than the pool.
InitPool ==
    \/ Init
    \/ /\ args = [ids_search |-> FALSE, tags |-> {}, tor |-> FALSE,
                  unique_tor |-> FALSE, proxy |-> None]
       /\ usernames = << <<Str1("a"), "username">> >>
       /\ site_data = PoolCatalog
       /\ InitCommon

SpecPool == InitPool /\ [][Next]_vars

\* The three-site catalog under every setting of --tor, --unique-tor and
\* --proxy.
InitTor ==
    /\ args \in [ids_search : {TRUE}, tags : {{}},
                 tor : BOOLEAN, unique_tor : BOOLEAN,
                 proxy : {None, "socks5://127.0.0.1:1080"}]
    /\ usernames \in InitialUsernames
    /\ site_data = MainCatalog
    /\ InitCommon

SpecTor == InitTor /\ [][Next]_vars

\* The worker threads of the pool run whenever a request is theirs to take,
\* and a request under way ends, with a response or with an exception.
Worker == \E f \in DOMAIN futures : WorkerStart(f) \/ WorkerDone(f)

SpecPoolFair == SpecPool /\ WF_vars(Worker)

-----------------------------------------------------------------------------
(* Properties *)

\* The site record with the given name, and the future of the running round
\* behind a delivered verdict.
SiteIndex(name) == CHOOSE k \in DOMAIN site_data : site_data[k].name = name

FutureOf(k) == futures[site_data[k].request_future]

RoundFutures == {f \in DOMAIN futures : futures[f].round = Len(starts)}

UpdatesFor(name) == {u \in DOMAIN updates : updates[u].site = name}

\* C1: over a run no two start notifications are for identifiers with the
\* same lower-cased form, every probe belongs to a started round, and the
\* step that pops an identifier whose lower-cased form is in already_checked
\* delivers no start, issues no probe and delivers no verdict.
C1_OneRoundPerIdentifier ==
    /\ [](\A a, b \in DOMAIN starts :
            a # b => Lower(starts[a][1]) # Lower(starts[b][1]))
    /\ [](\A f \in DOMAIN futures : futures[f].round \in DOMAIN starts)
    /\ [][(pc = "main" /\ usernames # <<>>
            /\ Lower(usernames[1][1]) \in {Lower(starts[a][1]) : a \in DOMAIN starts})
           => /\ starts' = starts
              /\ Len(futures') = Len(futures)
              /\ updates' = updates
              /\ pc' = "main"]_vars

\* C1 witness: a round has run to its end and the identifier now at the head
\* of usernames is another spelling of the one that round was for.
C1_Witness ==
    /\ pc = "main"
    /\ finishes >= 1
    /\ usernames # <<>>
    /\ \E a \in DOMAIN starts :
          /\ starts[a][1] # usernames[1][1]
          /\ Lower(starts[a][1]) = Lower(usernames[1][1])

\* The site is of the requested kind and, when tags are asked for, carries
\* one of them.
PassesFilters(net_info, kind, tags) ==
    /\ net_info.type = kind
    /\ (tags = {} \/ \E t \in tags : t \in net_info.tags)

\* A step of the main thread inside one of the loops of sherlock().
LoopStep == pc' # pc \/ idx' # idx

\* C2: when the main thread has left the loops of sherlock(), by reaching
\* the finish notification or by an exception, every site that passes the
\* kind and tag tests has exactly one verdict in the sink, ILLEGAL exactly
\* when the identifier fails its regexCheck.
C2_OneVerdictPerDescriptor ==
    (pc \in {"finish", "report", "raised"} /\ starts # <<>>) =>
        \A k \in DOMAIN site_data :
            PassesFilters(site_data[k], id_type, args.tags) =>
                /\ Cardinality(UpdatesFor(site_data[k].name)) = 1
                /\ \A u \in UpdatesFor(site_data[k].name) :
                      (updates[u].status = "ILLEGAL")
                          <=> RegexRejects(site_data[k], username)

\* C3: the step that collects a future holding an exception delivers one
\* verdict, with status UNKNOWN and the error context of that exception.
C3_TransportFailureIsUnknown ==
    [][(CollectReady /\ FutureOf(idx).outcome.kind = "exception" /\ LoopStep)
       => /\ Len(updates') = Len(updates) + 1
          /\ updates'[Len(updates')].site = site_data[idx].name
          /\ updates'[Len(updates')].status = "UNKNOWN"
          /\ updates'[Len(updates')].context
                = ErrorContext(FutureOf(idx).outcome.exception)]_vars

\* C4: the step that collects a future holding an exception leaves the
\* round running: the loop goes on to the next site or to the finish
\* notification.
C4_FailureDoesNotAbortRound ==
    [][(CollectReady /\ FutureOf(idx).outcome.kind = "exception" /\ LoopStep)
       => pc' \in {"collect", "finish"}]_vars

\* C5: when the program has ended, every identifier that a result of the
\* last round carries in ids_usernames has had its round: exactly one start
\* notification is for its lower-cased form.
C5_DiscoveredIsDispatched ==
    (pc \in {"done", "raised"} /\ args.ids_search) =>
        \A k \in DOMAIN results_total :
            \A e \in DOMAIN results_total[k].ids_usernames :
                Cardinality({a \in DOMAIN starts :
                    Lower(starts[a][1])
                        = Lower(results_total[k].ids_usernames[e][1])}) = 1

\* C10: every probe of the run is for a site that passes the kind and tag
\* tests of its round, and so is every verdict delivered in the running
\* round: a site that fails one of the tests has no probe and no verdict.
C10_FilteredSiteIsSilent ==
    /\ \A f \in DOMAIN futures :
          PassesFilters(site_data[futures[f].site], starts[futures[f].round][2], args.tags)
    /\ \A u \in DOMAIN updates :
          PassesFilters(site_data[SiteIndex(updates[u].site)], id_type, args.tags)
    /\ \A k \in DOMAIN results_total :
          results_total[k].present => PassesFilters(site_data[k], id_type, args.tags)

\* C10 witness: a round for a username under the tag filter has reached
\* its report with Alpha probed, Beta dropped by the tags and Gamma by the
\* kind.
C10_Witness ==
    /\ pc = "report"
    /\ id_type = "username"
    /\ args.tags = {"social"}
    /\ Len(updates) = 1
    /\ updates[1].site = "Alpha"
    /\ ~results_total[2].present
    /\ ~results_total[3].present
    /\ Cardinality(RoundFutures) = 1

-----------------------------------------------------------------------------
(* Properties of the classification, over the single-site catalogs *)

\* The verdicts of the running round that come from a delivered response,
\* each with its site record and the response it was computed from.
Delivered ==
    {u \in DOMAIN updates :
        /\ updates[u].status # "ILLEGAL"
        /\ FutureOf(SiteIndex(updates[u].site)).outcome.kind = "response"}

NetInfoOf(u) == site_data[SiteIndex(updates[u].site)]

ResponseOf(u) == FutureOf(SiteIndex(updates[u].site)).outcome

\* Some declared failure text occurs in the body.
Annotated(u) ==
    \E k \in DOMAIN NetInfoOf(u).errors :
        Contains(NetInfoOf(u).errors[k][1], ResponseOf(u).text)

Is2xx(status) == 200 <= status /\ status < 300

\* C6: a verdict of a status_code site computed from a delivered response
\* with no failure text in its body is CLAIMED when the status code is in
\* 200..299 and AVAILABLE for every other status code.
C6_StatusCodeVerdict ==
    \A u \in Delivered :
        (NetInfoOf(u).errorType = "status_code" /\ ~Annotated(u)) =>
            updates[u].status =
                IF Is2xx(ResponseOf(u).status_code) THEN "CLAIMED" ELSE "AVAILABLE"

\* The error messages of a site as the strings configured: the elements of
\* the list, or the one string.
ConfiguredMessages(net_info) ==
    IF net_info.errorMsg.type = "list"
    THEN {net_info.errorMsg.list[k] : k \in DOMAIN net_info.errorMsg.list}
    ELSE {net_info.errorMsg.str}

\* C7: a verdict of a message site computed from a delivered response with
\* no failure text in its body is AVAILABLE when one of the configured error
\* messages is a substring of the body and CLAIMED otherwise, whatever the
\* status code and whether errorMsg is a string or a list.
C7_BodyMessageVerdict ==
    \A u \in Delivered :
        (NetInfoOf(u).errorType = "message" /\ ~Annotated(u)) =>
            updates[u].status =
                IF \E m \in ConfiguredMessages(NetInfoOf(u)) :
                       Contains(m, ResponseOf(u).text)
                THEN "AVAILABLE" ELSE "CLAIMED"

\* C7 witness: both verdicts occur against the status code, for a string
\* errorMsg of two characters of which the body holds only the first.
C7_Witness ==
    \E u \in Delivered :
        /\ NetInfoOf(u).errorType = "message"
        /\ NetInfoOf(u).errorMsg = ErrorMsgStr(Str2("n", "x"))
        /\ NetInfoOf(u).errors = <<>>
        /\ ResponseOf(u).text = Str1("n")
        /\ ResponseOf(u).status_code = 404
        /\ updates[u].status = "CLAIMED"

\* C8: every request of a response_url site is issued with redirects
\* disabled and every other request with redirects allowed; a verdict of a
\* response_url site computed from a delivered response with no failure
\* text in its body is CLAIMED when the status code is in 200..299 and
\* AVAILABLE otherwise.
C8_RedirectUrlVerdict ==
    /\ \A f \in DOMAIN futures :
          futures[f].allow_redirects
              = (site_data[futures[f].site].errorType # "response_url")
    /\ \A u \in Delivered :
          (NetInfoOf(u).errorType = "response_url" /\ ~Annotated(u)) =>
              /\ ~FutureOf(SiteIndex(updates[u].site)).allow_redirects
              /\ updates[u].status =
                    IF Is2xx(ResponseOf(u).status_code) THEN "CLAIMED" ELSE "AVAILABLE"

\* C8 witness: a response_url site answered 302 to a request that did not
\* follow redirects, and the verdict is AVAILABLE.
C8_Witness ==
    \E u \in Delivered :
        /\ NetInfoOf(u).errorType = "response_url"
        /\ ResponseOf(u).status_code = 302
        /\ ~FutureOf(SiteIndex(updates[u].site)).allow_redirects
        /\ updates[u].status = "AVAILABLE"

\* The comment of the first declared failure text that occurs in the body.
RECURSIVE FirstComment(_, _)
FirstComment(errors, text) ==
    IF Contains(errors[1][1], text) THEN errors[1][2]
    ELSE FirstComment(Tail(errors), text)

\* C9: a verdict computed from a delivered response whose body holds a
\* declared failure text is UNKNOWN, with the comment of the first such text
\* as context, whatever the errorType of the site.
C9_FailureAnnotationVerdict ==
    \A u \in Delivered :
        Annotated(u) =>
            /\ updates[u].status = "UNKNOWN"
            /\ updates[u].context = FirstComment(NetInfoOf(u).errors, ResponseOf(u).text)

\* C9 witness: a message site whose own rule would say AVAILABLE, with two
\* declared failure texts both in the body, gets UNKNOWN with the comment of
\* the first.
C9_Witness ==
    \E u \in Delivered :
        /\ NetInfoOf(u).errorType = "message"
        /\ NetInfoOf(u).errorMsg = ErrorMsgStr(Str1("n"))
        /\ Len(NetInfoOf(u).errors) = 2
        /\ ResponseOf(u).text = Str2("x", "n")
        /\ updates[u].status = "UNKNOWN"
        /\ updates[u].context = "Captcha"

\* The site declares a pattern and the identifier has no match for it.
FailsPattern(net_info, name) ==
    /\ net_info.regexCheck = "^[a-z]+$"
    /\ (name = <<>> \/ \E i \in DOMAIN name : name[i] \in {"A", "B"})

\* C11: the dispatch step of a site that passes the filters and whose pattern
\* the identifier fails delivers exactly one more verdict, ILLEGAL with no
\* query time, and submits no request; the collection loop's step for a site
\* refused this way submits no request and delivers no verdict; and no request
\* in futures is for an identifier that fails the pattern of its site.
C11_IllegalWithoutRequest ==
    /\ [][(pc = "dispatch" /\ LoopStep
              /\ PassesFilters(site_data[idx], id_type, args.tags)
              /\ FailsPattern(site_data[idx], username))
           => /\ updates' = Append(updates,
                                   QueryResult(username, site_data[idx].name,
                                               "ILLEGAL", None, None))
              /\ futures' = futures]_vars
    /\ [][(pc = "collect" /\ LoopStep
              /\ PassesFilters(site_data[idx], id_type, args.tags)
              /\ FailsPattern(site_data[idx], username))
           => /\ updates' = updates
              /\ futures' = futures
              /\ pc' # "raised"]_vars
    /\ [](\A f \in DOMAIN futures :
            ~FailsPattern(site_data[futures[f].site], starts[futures[f].round][1]))

\* C11 witness: the round of "A" is over; Beta, whose pattern "A" fails, has
\* its single ILLEGAL verdict and no request, while Alpha was requested.
C11_Witness ==
    /\ pc = "report"
    /\ username = Str1("A")
    /\ \E u \in DOMAIN updates :
          /\ updates[u].site = "Beta"
          /\ updates[u].status = "ILLEGAL"
          /\ updates[u].query_time = None
    /\ Cardinality(UpdatesFor("Beta")) = 1
    /\ \A f \in RoundFutures : site_data[futures[f].site].name # "Beta"
    /\ \E f \in RoundFutures : site_data[futures[f].site].name = "Alpha"

\* The requests whose network call is under way, and the sites of the
\* catalog that pass the filters of the running round.
Outstanding == {f \in DOMAIN futures : futures[f].state = "running"}

ApplicableSites ==
    {k \in DOMAIN site_data : PassesFilters(site_data[k], id_type, args.tags)}

Smaller(a, b) == IF a <= b THEN a ELSE b

C13_RoundsAreSequential ==
    /\ [](\A f \in DOMAIN futures :
            /\ futures[f].round <= Len(starts)
            /\ futures[f].round < Len(starts) => futures[f].state = "done")
    /\ [](\A u \in DOMAIN updates : updates[u].username = starts[Len(starts)][1])
    /\ [][Len(futures') > Len(futures)
          => futures'[Len(futures')].round = Len(starts)]_vars
    /\ [][starts' # starts
          => /\ \A f \in DOMAIN futures : futures[f].state = "done"
             /\ \A k \in ApplicableSites :
                   Cardinality(UpdatesFor(site_data[k].name)) = 1
             /\ finishes = Len(starts)]_vars

\* C13 witness: the second round is collecting with a request of its own
\* under way, after a first round that made requests.
C13_Witness ==
    /\ Len(starts) = 2
    /\ pc = "collect"
    /\ \E f \in DOMAIN futures : futures[f].round = 1
    /\ \E f \in DOMAIN futures : futures[f].round = 2 /\ futures[f].state = "running"

\* C14 as claimed: over a whole run finish is delivered exactly once, and
\* only with usernames empty.
C14_FinishOncePerRun ==
    /\ finishes <= 1
    /\ (finishes >= 1 => usernames = <<>>)
    /\ (pc = "done" => finishes = 1)

\* C14, amended: finish is delivered once for every round that runs to its
\* end, after the verdicts of that round and before the next start; between
\* rounds and at the end of a run there are as many finish as start
\* notifications, and within a round one fewer.
C14_FinishOncePerRound ==
    /\ [](/\ pc \in {"check_args", "main", "report", "done"} => finishes = Len(starts)
          /\ pc \in {"dispatch", "collect", "finish", "raised"}
                => finishes = Len(starts) - IF starts = <<>> THEN 0 ELSE 1)
    /\ [][finishes' # finishes
          => /\ finishes' = finishes + 1
             /\ updates' = updates
             /\ starts' = starts
             /\ \A k \in ApplicableSites :
                   Cardinality(UpdatesFor(site_data[k].name)) = 1]_vars

\* C14 witness: a run of two rounds is over, with two finish notifications,
\* the first of them delivered while an identifier was still in usernames.
C14_Witness ==
    /\ pc = "done"
    /\ Len(starts) = 2
    /\ finishes = 2

\* C15: the collection step of a site whose errorType is none of
\* status_code, message and response_url, and whose request got a response,
\* delivers no verdict for it and does not end the round: the loop goes on
\* to the next site or to finish.
C15_UnknownStrategyIsLocal ==
    [][(pc = "collect" /\ LoopStep
          /\ results_total[idx].present /\ ~results_total[idx].has_status
          /\ site_data[idx].errorType \notin {"status_code", "message", "response_url"}
          /\ FutureOf(idx).outcome.kind = "response")
       => /\ updates' = updates
          /\ pc' \in {"collect", "finish"}]_vars

\* C16: with unique_tor set, a step that resets the Tor identity leaves no
\* request submitted on the circuit it replaces queued or under way, the
\* request just submitted included.
C16_ResetAfterCompletion ==
    [][(args.unique_tor /\ circuit' # circuit)
       => \A f \in DOMAIN futures' :
             futures'[f].circuit = circuit => futures'[f].state = "done"]_vars

\* The keys of extracted data that name an identifier to search for.
OfInterest(key) ==
    key \in {"username", "vk_username", "yandex_public_id", "wikimapia_uid", "gaia_id"}

\* C17: with ids_search set, once a round has been folded into usernames,
\* every identifier that the page of a site with verdict CLAIMED holds under
\* a key of interest has been searched already or is in usernames.
C17_ClaimedPageIsExtracted ==
    (pc = "main" /\ args.ids_search)
    => \A k \in DOMAIN results_total :
          (results_total[k].present /\ results_total[k].status = "CLAIMED")
          => \A i \in DOMAIN FutureOf(k).outcome.ids :
                OfInterest(FutureOf(k).outcome.ids[i][1])
                => \/ Lower(FutureOf(k).outcome.ids[i][2]) \in already_checked
                   \/ DictHas(usernames, FutureOf(k).outcome.ids[i][2])

\* A site record without the future stored in it.
Settings(net_info) == [net_info EXCEPT !.request_future = 0]

\* C18 as claimed: no step changes any field of any site record.
C18_CatalogIsReadOnly == [][site_data' = site_data]_vars

\* C18, amended: no step changes the sites of the catalog or any field of a
\* site record other than request_future; that field changes only in the
\* dispatch step of its own site, which stores there the request it has just
\* submitted; no collection step changes the catalog.
C18_OnlyFutureIsStored ==
    /\ [][/\ DOMAIN site_data' = DOMAIN site_data
          /\ \A k \in DOMAIN site_data :
                Settings(site_data'[k]) = Settings(site_data[k])]_vars
    /\ [][site_data' # site_data
          => /\ pc = "dispatch"
             /\ \A k \in DOMAIN site_data : k # idx => site_data'[k] = site_data[k]
             /\ Len(futures') = Len(futures) + 1
             /\ site_data'[idx].request_future = Len(futures')]_vars

\* C18 witness: a run is over and a site record holds the future of a
\* request, which the catalog as loaded did not.
C18_Witness ==
    /\ pc = "done"
    /\ \E k \in DOMAIN site_data :
          /\ site_data[k].request_future # 0
          /\ site_data[k] # MainCatalog[k]
          /\ Settings(site_data[k]) = MainCatalog[k]

\* C19: no step taken between the entry into a round and its finish changes
\* usernames or already_checked; a step that changes either is a step of
\* main() between rounds, with every request done and no request touched;
\* and usernames gains a key only in the step that folds in the results of a
\* finished round.
C19_QueueChangesBetweenRounds ==
    /\ [][(pc \in {"dispatch", "collect", "finish"})
          => (usernames' = usernames /\ already_checked' = already_checked)]_vars
    /\ [][(usernames' # usernames \/ already_checked' # already_checked)
          => /\ pc \in {"main", "report"}
             /\ futures' = futures
             /\ \A f \in DOMAIN futures : futures[f].state = "done"]_vars
    /\ [][DictKeys(usernames') \ DictKeys(usernames) # {}
          => /\ pc = "report"
             /\ finishes = Len(starts)
             /\ updates' = updates]_vars

\* C19 witness: the collection loop is still running and has found, in the
\* page of a site, an identifier that is not in usernames.
C19_Witness ==
    /\ pc = "collect"
    /\ \E k \in DOMAIN results_total :
          /\ results_total[k].ids_usernames # <<>>
          /\ ~DictHas(usernames, results_total[k].ids_usernames[1][1])
          /\ Lower(results_total[k].ids_usernames[1][1]) \notin already_checked
    /\ \E f \in RoundFutures : futures[f].state # "done"

C21_ProxyExcludesTor ==
    /\ ((args.tor \/ args.unique_tor) /\ args.proxy # None) => futures = <<>>
    /\ \A f \in DOMAIN futures : ~(futures[f].tor /\ futures[f].proxies # None)

\* C22: when every request ends and every thread is scheduled, the run
\* comes to a stop with usernames empty, and no two of its rounds are for
\* identifiers with the same lower-cased form.
C22_DriverDrainsQueue ==
    /\ <>(usernames = <<>> /\ pc \in {"done", "raised"})
    /\ [](\A a, b \in DOMAIN starts :
            a # b => Lower(starts[a][1]) # Lower(starts[b][1]))

\* A step of the collection loop that takes the result of a future.
ReadsFuture == pc = "collect" /\ LoopStep /\ (updates' # updates \/ pc' = "raised")

\* C23: a step of the collection loop that takes the result of a future
\* takes the one submitted in the running round for the site at hand; every
\* verdict other than ILLEGAL is for a site whose record holds a future of
\* the running round; and the step for a site that the round filtered out or
\* refused takes no future and delivers nothing, whatever its record holds.
C23_StaleFutureIsNotRead ==
    /\ [][ReadsFuture
          => /\ site_data[idx].request_future \in DOMAIN futures
             /\ FutureOf(idx).round = Len(starts)
             /\ FutureOf(idx).site = idx]_vars
    /\ [](\A u \in DOMAIN updates :
            updates[u].status # "ILLEGAL"
            => /\ FutureOf(SiteIndex(updates[u].site)).round = Len(starts)
               /\ FutureOf(SiteIndex(updates[u].site)).site = SiteIndex(updates[u].site))
    /\ [][(pc = "collect" /\ LoopStep
             /\ (~PassesFilters(site_data[idx], id_type, args.tags)
                 \/ FailsPattern(site_data[idx], username)))
          => (updates' = updates /\ pc' # "raised")]_vars

\* C23 witness: the second round has delivered the verdict of a request of
\* its own while the record of a site it refused as ILLEGAL still holds the
\* finished future of the first round.
C23_Witness ==
    /\ Len(starts) = 2
    /\ pc = "finish"
    /\ \E u \in DOMAIN updates : updates[u].status \notin {"ILLEGAL", "UNKNOWN"}
    /\ \E k \in DOMAIN site_data :
          /\ FailsPattern(site_data[k], username)
          /\ site_data[k].request_future # 0
          /\ FutureOf(k).round = 1
          /\ FutureOf(k).state = "done"

\* C24: a start is delivered only when every earlier start has had its
\* finish, a finish only when one start is without its finish, and a verdict
\* only between the two, for the identifier of that start; a step delivers
\* one notification at most, and a round that has run to its end has had one
\* start and one finish.
C24_StartVerdictsFinish ==
    /\ [][starts' # starts
          => /\ Len(starts') = Len(starts) + 1
             /\ finishes = Len(starts)
             /\ finishes' = finishes
             /\ updates' = <<>>]_vars
    /\ [][(updates' # updates /\ updates' # <<>>)
          => /\ Len(updates') = Len(updates) + 1
             /\ Len(starts) = finishes + 1
             /\ starts' = starts
             /\ finishes' = finishes
             /\ updates'[Len(updates')].username = starts[Len(starts)][1]]_vars
    /\ [][finishes' # finishes
          => /\ finishes' = finishes + 1
             /\ Len(starts) = finishes + 1
             /\ starts' = starts
             /\ updates' = updates]_vars
    /\ [](pc \in {"report", "main", "done"} => finishes = Len(starts))

\* C24 witness: the second round has just delivered its finish, after its
\* start and two verdicts, and the first round had its own start and finish.
C24_Witness ==
    /\ pc = "report"
    /\ Len(starts) = 2
    /\ finishes = 2
    /\ Len(updates) = 2

\* The identifiers that have had a round, in the order of their rounds,
\* followed by the identifiers waiting in usernames, in its order.
Schedule ==
    [k \in 1..Len(starts) |-> starts[k][1]] \o [k \in DOMAIN usernames |-> usernames[k][1]]

IsPrefix(s, t) == Len(s) <= Len(t) /\ SubSeq(t, 1, Len(s)) = s

RemoveAt(s, n) == SubSeq(s, 1, n - 1) \o SubSeq(s, n + 1, Len(s))

\* C25: a round is always for the identifier at the head of usernames; an
\* identifier put into usernames while it is not there goes behind every
\* identifier that has had a round or is waiting, and no step changes the
\* order of those: the only identifier taken out is the head of usernames
\* when it is passed over as already checked. Rounds are therefore in the
\* order of first insertion, the identifiers given at the start first.
C25_RoundsInInsertionOrder ==
    /\ [][starts' # starts
          => (usernames # <<>> /\ starts' = Append(starts, usernames[1]))]_vars
    /\ [][\/ IsPrefix(Schedule, Schedule')
          \/ /\ usernames # <<>>
             /\ starts' = starts
             /\ Schedule' = RemoveAt(Schedule, Len(starts) + 1)]_vars
    /\ [][Len(Schedule') > Len(Schedule)
          => /\ pc = "report"
             /\ \A n \in (Len(Schedule) + 1)..Len(Schedule') :
                   \A m \in DOMAIN usernames : usernames[m][1] # Schedule'[n]]_vars

\* C25 witness: after the round of "a", usernames holds "A", given at the
\* start and found again in that round, ahead of "b", found in that round
\* by a site that comes before the one that found "A".
C25_Witness ==
    /\ pc = "main"
    /\ Len(starts) = 1
    /\ starts[1][1] = Str1("a")
    /\ Len(usernames) = 2
    /\ usernames[1][1] = Str1("A")
    /\ usernames[2][1] = Str1("b")
    /\ DictHas(results_total[1].ids_usernames, Str1("b"))
    /\ DictHas(results_total[2].ids_usernames, Str1("A"))

\* The sites, in the order of the results, whose page gave the identifier,
\* and the kind the last of them gave it.
Pushers(key) ==
    {k \in DOMAIN results_total : DictHas(results_total[k].ids_usernames, key)}

LastPushedKind(key) ==
    LET k == CHOOSE n \in Pushers(key) : \A m \in Pushers(key) : m <= n
        d == results_total[k].ids_usernames
    IN  d[CHOOSE i \in DOMAIN d : d[i][1] = key][2]

\* C26: no identifier is twice in usernames; folding the results of a round
\* into usernames leaves every waiting identifier in its place, with the
\* kind of the last site that gave it in that round, or with its own kind
\* when no site gave it; the round of an identifier runs with the kind it
\* has when it is popped, and makes requests only to sites of that kind.
C26_OneEntryLastKind ==
    /\ [](\A m, n \in DOMAIN usernames :
            m # n => usernames[m][1] # usernames[n][1])
    /\ [][pc = "report"
          => /\ Len(usernames') >= Len(usernames)
             /\ \A m \in DOMAIN usernames :
                   /\ usernames'[m][1] = usernames[m][1]
                   /\ usernames'[m][2] =
                         IF Pushers(usernames[m][1]) # {}
                         THEN LastPushedKind(usernames[m][1])
                         ELSE usernames[m][2]]_vars
    /\ [][starts' # starts
          => (starts'[Len(starts')] = usernames[1] /\ id_type' = usernames[1][2])]_vars
    /\ [](\A f \in DOMAIN futures :
            site_data[futures[f].site].type = starts[futures[f].round][2])

\* C26 witness: "A" was waiting as a username when the round of "a" ended;
\* a site gave "b" and a later site gave "A" as a gaia_id, and usernames now
\* holds "A" once, in its old place ahead of "b", with the kind gaia_id.
C26_Witness ==
    /\ pc = "main"
    /\ Len(starts) = 1
    /\ usernames = << <<Str1("A"), "gaia_id">>, <<Str1("b"), "username">> >>
    /\ DictHas(results_total[1].ids_usernames, Str1("b"))
    /\ results_total[2].ids_usernames = << <<Str1("A"), "gaia_id">> >>

\* C27: an ILLEGAL verdict is delivered by a step of the dispatch loop and
\* every other verdict by a step of the collection loop; in the verdicts of
\* a round the ILLEGAL ones come first and the others follow in the order of
\* the catalog; and when a verdict of the second sort has been delivered,
\* the request of its site and of every earlier site of the round is done.
C27_IllegalFirstThenCatalogOrder ==
    /\ [][(updates' # updates /\ updates' # <<>>)
          => IF updates'[Len(updates')].status = "ILLEGAL"
             THEN pc = "dispatch" ELSE pc = "collect"]_vars
    /\ [](\A u, v \in DOMAIN updates :
            u < v
            => /\ updates[v].status = "ILLEGAL" => updates[u].status = "ILLEGAL"
               /\ (updates[u].status # "ILLEGAL" /\ updates[v].status # "ILLEGAL")
                     => SiteIndex(updates[u].site) < SiteIndex(updates[v].site))
    /\ [](\A u \in DOMAIN updates :
            updates[u].status # "ILLEGAL"
            => \A f \in RoundFutures :
                  futures[f].site <= SiteIndex(updates[u].site)
                  => futures[f].state = "done")

\* C27 witness: the request of the second site is done, the request of the
\* first is still under way, and the collection loop, at the first site, has
\* delivered nothing yet.
C27_Witness ==
    /\ pc = "collect"
    /\ idx = 1
    /\ updates = <<>>
    /\ \E f, g \in RoundFutures :
          /\ futures[f].site = 1 /\ futures[f].state = "running"
          /\ futures[g].site = 2 /\ futures[g].state = "done"

RECURSIVE FirstSpellings(_, _)
\* The identifiers of a sequence whose lower-cased form has not come before
\* in it, in their order.
FirstSpellings(ids, seen) ==
    IF ids = <<>> THEN <<>>
    ELSE IF Lower(ids[1]) \in seen THEN FirstSpellings(Tail(ids), seen)
         ELSE <<ids[1]>> \o FirstSpellings(Tail(ids), seen \cup {Lower(ids[1])})

\* C28: with ids_search off no step puts an identifier into usernames or
\* changes the kind of one, so that the identifiers started and waiting,
\* one spelling for each lower-cased form, stay those given at the start;
\* the rounds run are for the first of them, in their order, and for all of
\* them once the program has stopped.
C28_NoGrowthWithoutExtraction ==
    /\ [][~args.ids_search
          => /\ (usernames' = usernames \/ usernames' = Tail(usernames))
             /\ FirstSpellings(Schedule', {}) = FirstSpellings(Schedule, {})]_vars
    /\ [](~args.ids_search
            => IsPrefix([k \in 1..Len(starts) |-> starts[k][1]],
                        FirstSpellings(Schedule, {})))
    /\ []((~args.ids_search /\ pc \in {"done", "raised"})
            => [k \in 1..Len(starts) |-> starts[k][1]] = FirstSpellings(Schedule, {}))

====
